---------------------------- MODULE Spec2Model ----------------------------
(***************************************************************************)
(* A model of yazi-shared/src/fs/fns.rs.                                   *)
(*                                                                         *)
(*   copy_with_progress     two spawned tasks (copier, poller), a oneshot  *)
(*                          completion signal, a capacity-1 mpsc channel   *)
(*                          and the consumer that owns the receiver.       *)
(*                          Specification SpecCopy.                        *)
(*   symlink_realpath_with  a sequence of calls that share one cache, on a *)
(*                          case-insensitive filesystem.                   *)
(*                          Specification SpecResolve.                     *)
(***************************************************************************)
EXTENDS Integers, Sequences, FiniteSets, TLC

\* The largest source file, in bytes.
MaxSize == 3

VARIABLES
    size,       \* length of the source file: what fs::copy returns on success
    destLen,    \* current length of the destination file (0 while absent)
    cpc,        \* copier task: "copy", "times", "signal", "done"
    copyRes,    \* result of fs::copy, once it returned
    timesDone,  \* the spawn_blocking closure that applies the timestamps ran
    tick,       \* the oneshot channel tick_tx -> tick_rx
    ppc,        \* poller task: "select", "sample", "send_*", "done"
    last,       \* poller local `last`
    exit,       \* poller local `exit`
    pending,    \* the message of the tx.send(..) the poller is awaiting
    sampled,    \* poller local `len` of the tick being reported
    chan,       \* the mpsc::channel(1) buffer
    rx,         \* the consumer's receiver: "open", "closed", "dropped"
    sent,       \* history: messages tx.send accepted, in order
    received,   \* history: messages the consumer got from rx.recv
    dropCpc,    \* history: the copier's position when rx was closed or dropped
    cached,     \* symlink_realpath_with: the HashMap<PathBuf, PathBuf> of the caller
    calls,      \* history: number of calls made with this cache
    scans,      \* history: parent |-> number of listings of it that ran to their end
    lastIn,     \* history: `path` of the last call
    lastOut,    \* history: what the last call returned
    lastRead,   \* history: the directory the last call gave to fs::read_dir, if any
    root,       \* calculate_size: the argument `path`
    total,      \* calculate_size: `total`
    stack,      \* calculate_size: `stack`, a VecDeque used as a queue
    spc,        \* calculate_size: "pop", "iter", "done"
    cur,        \* calculate_size: the directory being iterated
    remaining,  \* calculate_size: entries the iterator `it` has not returned yet
    lost,       \* history: paths at which a metadata query or a listing failed
    cut,        \* history: directories whose listing failed after it was opened
    files,      \* max_common_root: the argument `files`
    commonRoot, \* max_common_root: the candidate `root`
    it,         \* max_common_root: index of the next element of the iterator `it`
    rpc         \* max_common_root: "start", "fold", "done"

copyVars == <<size, destLen, cpc, copyRes, timesDone, tick, ppc, last, exit,
              pending, sampled, chan, rx, sent, received, dropCpc>>

resolveVars == <<cached, calls, scans, lastIn, lastOut, lastRead>>

sizeVars == <<root, total, stack, spc, cur, remaining, lost, cut>>

rootVars == <<files, commonRoot, it, rpc>>

\* What the steps of each function leave alone.
notCopyVars == <<resolveVars, sizeVars, rootVars>>
notResolveVars == <<copyVars, sizeVars, rootVars>>
notSizeVars == <<copyVars, resolveVars, rootVars>>
notRootVars == <<copyVars, resolveVars, sizeVars>>

vars == <<copyVars, resolveVars, sizeVars, rootVars>>

--------------------------------------------------------------------------
(* Result<u64, io::Error> *)
Ok(n) == [ok |-> TRUE, v |-> n]
Err == [ok |-> FALSE, v |-> 0]
None == [ok |-> FALSE, v |-> -1]

\* mpsc::channel(1)
ChanCapacity == 1

\* Mutant of ShouldReport: a tick with no growth is reported too.
ShouldReportNoGrowth(len, lst) == len >= lst

\* `if len > last` (lines 151 and 165)
ShouldReport(len, lst) == len > lst

\* Mutant of Delta: the length is sent instead of the difference.
DeltaNoSubtract(len, lst) == Ok(len)

\* `Ok(len - last)` (lines 152 and 166)
Delta(len, lst) == Ok(len - lst)

\* Mutant of OnExit: a failed completion is handled as a successful one.
OnExitErrAsOk(res, lst) ==
    IF ShouldReport(res.v, lst) THEN "send_final" ELSE "send_zero"

\* The arm of `match exit` taken once the completion signal was received.
OnExit(res, lst) ==
    IF res.ok
    THEN IF ShouldReport(res.v, lst) THEN "send_final" ELSE "send_zero"
    ELSE "send_err"

\* Where the poller goes when a tx.send(..).await returned.
AfterSend(pc) ==
    CASE pc = "send_tick" -> "select"
      [] pc = "send_final" -> "send_zero"
      [] pc = "send_zero" -> "done"
      [] pc = "send_err" -> "done"

--------------------------------------------------------------------------
(* The copier task, lines 121-132. *)

\* Mutant of CopyWrite: the copy is cancelled when the receiver goes away.
CopyWriteWhileOpen ==
    /\ cpc = "copy"
    /\ rx = "open"
    /\ destLen < size
    /\ \E n \in (destLen + 1)..size : destLen' = n
    /\ UNCHANGED <<size, cpc, copyRes, timesDone, tick, ppc, last, exit,
                   pending, sampled, chan, rx, sent, received, dropCpc>>
    /\ UNCHANGED notCopyVars

\* fs::copy writes some more bytes to the destination.
CopyWrite ==
    /\ cpc = "copy"
    /\ destLen < size
    /\ \E n \in (destLen + 1)..size : destLen' = n
    /\ UNCHANGED <<size, cpc, copyRes, timesDone, tick, ppc, last, exit,
                   pending, sampled, chan, rx, sent, received, dropCpc>>
    /\ UNCHANGED notCopyVars

\* Mutant of CopyOk: the completion signal is sent without waiting for the
\* timestamps.
CopyOkSkipsTimes ==
    /\ cpc = "copy"
    /\ destLen = size
    /\ copyRes' = Ok(size)
    /\ cpc' = "signal"
    /\ UNCHANGED <<size, destLen, timesDone, tick, ppc, last, exit,
                   pending, sampled, chan, rx, sent, received, dropCpc>>
    /\ UNCHANGED notCopyVars

\* fs::copy returns Ok(len).
CopyOk ==
    /\ cpc = "copy"
    /\ destLen = size
    /\ copyRes' = Ok(size)
    /\ cpc' = "times"
    /\ UNCHANGED <<size, destLen, timesDone, tick, ppc, last, exit,
                   pending, sampled, chan, rx, sent, received, dropCpc>>
    /\ UNCHANGED notCopyVars

\* fs::copy returns Err(e), at any point of the copy.
CopyErr ==
    /\ cpc = "copy"
    /\ copyRes' = Err
    /\ cpc' = "signal"
    /\ UNCHANGED <<size, destLen, timesDone, tick, ppc, last, exit,
                   pending, sampled, chan, rx, sent, received, dropCpc>>
    /\ UNCHANGED notCopyVars

\* spawn_blocking(open(to).and_then(set_times).ok()).await: its outcome is ignored.
SetTimes ==
    /\ cpc = "times"
    /\ timesDone' = TRUE
    /\ cpc' = "signal"
    /\ UNCHANGED <<size, destLen, copyRes, tick, ppc, last, exit,
                   pending, sampled, chan, rx, sent, received, dropCpc>>
    /\ UNCHANGED notCopyVars

\* tick_tx.send(..): fails, and is ignored, when the poller has dropped tick_rx.
Signal ==
    /\ cpc = "signal"
    /\ tick' = IF ppc = "done" THEN tick ELSE copyRes
    /\ cpc' = "done"
    /\ UNCHANGED <<size, destLen, copyRes, timesDone, ppc, last, exit,
                   pending, sampled, chan, rx, sent, received, dropCpc>>
    /\ UNCHANGED notCopyVars

Copier == CopyWrite \/ CopyOk \/ CopyErr \/ SetTimes \/ Signal

--------------------------------------------------------------------------
(* The poller task, lines 139-170. *)

\* select!: `res = &mut tick_rx`, then the match on exit.
PollerCompletion ==
    /\ ppc = "select"
    /\ tick # None
    /\ exit' = tick
    /\ ppc' = OnExit(tick, last)
    /\ pending' = CASE OnExit(tick, last) = "send_final" -> Delta(tick.v, last)
                    [] OnExit(tick, last) = "send_zero" -> Ok(0)
                    [] OnExit(tick, last) = "send_err" -> Err
    /\ UNCHANGED <<size, destLen, cpc, copyRes, timesDone, tick, last,
                   sampled, chan, rx, sent, received, dropCpc>>
    /\ UNCHANGED notCopyVars

\* select!: `_ = tx.closed() => break`.
PollerClosed ==
    /\ ppc = "select"
    /\ rx # "open"
    /\ ppc' = "done"
    /\ UNCHANGED <<size, destLen, cpc, copyRes, timesDone, tick, last, exit,
                   pending, sampled, chan, rx, sent, received, dropCpc>>
    /\ UNCHANGED notCopyVars

\* select!: the 3 s sleep elapsed; exit is None.
PollerTick ==
    /\ ppc = "select"
    /\ ppc' = "sample"
    /\ UNCHANGED <<size, destLen, cpc, copyRes, timesDone, tick, last, exit,
                   pending, sampled, chan, rx, sent, received, dropCpc>>
    /\ UNCHANGED notCopyVars

\* fs::symlink_metadata(&to).map(|m| m.len()).unwrap_or(0), and `if len > last`.
PollerSample ==
    /\ ppc = "sample"
    /\ IF ShouldReport(destLen, last)
       THEN /\ ppc' = "send_tick"
            /\ pending' = Delta(destLen, last)
            /\ sampled' = destLen
       ELSE /\ ppc' = "select"
            /\ UNCHANGED <<pending, sampled>>
    /\ UNCHANGED <<size, destLen, cpc, copyRes, timesDone, tick, last, exit,
                   chan, rx, sent, received, dropCpc>>
    /\ UNCHANGED notCopyVars

\* Mutant of PollerSend: a send never fails, it waits for an open receiver.
PollerSendWaitsForRoom ==
    /\ ppc \in {"send_tick", "send_final", "send_zero", "send_err"}
    /\ rx = "open"
    /\ Len(chan) < ChanCapacity
    /\ chan' = Append(chan, pending)
    /\ sent' = Append(sent, pending)
    /\ ppc' = AfterSend(ppc)
    /\ last' = IF ppc = "send_tick" THEN sampled ELSE last
    /\ pending' = IF ppc = "send_final" THEN Ok(0) ELSE pending
    /\ UNCHANGED <<size, destLen, cpc, copyRes, timesDone, tick, exit,
                   sampled, rx, received, dropCpc>>
    /\ UNCHANGED notCopyVars

\* tx.send(pending).await.ok(): waits for room, fails when the receiver is gone.
PollerSend ==
    /\ ppc \in {"send_tick", "send_final", "send_zero", "send_err"}
    /\ \/ /\ rx = "open"
          /\ Len(chan) < ChanCapacity
          /\ chan' = Append(chan, pending)
          /\ sent' = Append(sent, pending)
       \/ /\ rx # "open"
          /\ UNCHANGED <<chan, sent>>
    /\ ppc' = AfterSend(ppc)
    /\ last' = IF ppc = "send_tick" THEN sampled ELSE last
    /\ pending' = IF ppc = "send_final" THEN Ok(0) ELSE pending
    /\ UNCHANGED <<size, destLen, cpc, copyRes, timesDone, tick, exit,
                   sampled, rx, received, dropCpc>>
    /\ UNCHANGED notCopyVars

Poller == PollerCompletion \/ PollerClosed \/ PollerTick \/ PollerSample \/ PollerSend

--------------------------------------------------------------------------
(* The consumer, owner of the returned mpsc::Receiver. *)

\* rx.recv() returns Some(msg).
Recv ==
    /\ rx # "dropped"
    /\ chan # <<>>
    /\ received' = Append(received, Head(chan))
    /\ chan' = Tail(chan)
    /\ UNCHANGED <<size, destLen, cpc, copyRes, timesDone, tick, ppc, last,
                   exit, pending, sampled, rx, sent, dropCpc>>
    /\ UNCHANGED notCopyVars

\* rx.close(): buffered messages can still be received.
Close ==
    /\ rx = "open"
    /\ rx' = "closed"
    /\ dropCpc' = cpc
    /\ UNCHANGED <<size, destLen, cpc, copyRes, timesDone, tick, ppc, last,
                   exit, pending, sampled, chan, sent, received>>
    /\ UNCHANGED notCopyVars

\* drop(rx): buffered messages are discarded.
Drop ==
    /\ rx = "open"
    /\ rx' = "dropped"
    /\ chan' = <<>>
    /\ dropCpc' = cpc
    /\ UNCHANGED <<size, destLen, cpc, copyRes, timesDone, tick, ppc, last,
                   exit, pending, sampled, sent, received>>
    /\ UNCHANGED notCopyVars

Consumer == Recv \/ Close \/ Drop

--------------------------------------------------------------------------
(* symlink_realpath_with, lines 39-70.                                     *)
(*                                                                         *)
(* A path is the sequence of its components, the first being its root or   *)
(* prefix; a component is the sequence of its characters.  The empty       *)
(* sequence is PathBuf::new().                                             *)

UpperChars == <<"A", "B", "C", "D", "E", "F", "G", "H", "I", "J", "K", "L", "M",
                "N", "O", "P", "Q", "R", "S", "T", "U", "V", "W", "X", "Y", "Z">>
LowerChars == <<"a", "b", "c", "d", "e", "f", "g", "h", "i", "j", "k", "l", "m",
                "n", "o", "p", "q", "r", "s", "t", "u", "v", "w", "x", "y", "z">>

\* u8::is_ascii_uppercase
UpperSet == {UpperChars[i] : i \in DOMAIN UpperChars}
IsUpper(ch) == ch \in UpperSet

\* u8::to_ascii_lowercase
LowerOf == [ch \in UpperSet |-> LowerChars[CHOOSE i \in DOMAIN UpperChars : UpperChars[i] = ch]]
ToLowerChar(ch) == IF IsUpper(ch) THEN LowerOf[ch] ELSE ch

LowerName(n) == [i \in 1..Len(n) |-> ToLowerChar(n[i])]

\* path.as_os_str().to_ascii_lowercase().into(): every byte of every component.
LowerPath(pa) == [i \in 1..Len(pa) |-> LowerName(pa[i])]

\* as_encoded_bytes().iter().any(|&b| b.is_ascii_uppercase())
HasUpperName(n) == \E i \in 1..Len(n) : IsUpper(n[i])
HasUpperPath(pa) == \E i \in 1..Len(pa) : HasUpperName(pa[i])

\* PathBuf::new()
EmptyPath == <<>>

\* Path::parent is None for a path that ends in a root or prefix, and for "".
HasParent(pa) == Len(pa) > 1
Parent(pa) == SubSeq(pa, 1, Len(pa) - 1)
FileName(pa) == pa[Len(pa)]

(* The filesystem: case-insensitive and case-preserving, unchanged during  *)
(* the calls.  Disk holds the entries in their on-disk casing; no two have *)
(* the same lowercased path.                                               *)
Root == <<"/">>
Share == <<"S">>
Disk ==
    { <<Root, <<"A">>>>,
      <<Root, <<"A">>, <<"C", "d">>>>,
      <<Root, <<"f">>>>,
      <<Root, <<"f">>, <<"G">>>>,
      <<Root, <<"f">>, <<"G">>, <<"k">>>>,
      <<Root, <<"f">>, <<"h">>>> }

\* The paths given to the calls: the entries of Disk in every casing, and the
\* roots (a prefix such as a UNC share may have uppercase characters).
Letters == {UpperChars[i] : i \in DOMAIN UpperChars} \cup {LowerChars[i] : i \in DOMAIN LowerChars}
NameVariants(n) ==
    {v \in [1..Len(n) -> Letters \cup {n[i] : i \in 1..Len(n)}] : LowerName(v) = LowerName(n)}
PathVariants(pa) ==
    {v \in [1..Len(pa) -> UNION {NameVariants(pa[i]) : i \in 1..Len(pa)}] :
        \A i \in 1..Len(pa) : v[i] \in NameVariants(pa[i])}
Inputs ==
    UNION {PathVariants(d) : d \in Disk} \cup {<<Root>>, <<Share>>, <<LowerName(Share)>>}

\* fs::read_dir(parent) and the entry.path() of its entries: the directory is
\* found whatever the casing of `parent`, and each entry's path is `parent`
\* as given joined with the on-disk file name.
ReadDir(parent) ==
    {Append(parent, FileName(d)) : d \in {e \in Disk : LowerPath(Parent(e)) = LowerPath(parent)}}

\* HashMap::new(), insert
EmptyCache == [k \in {} |-> EmptyPath]
Insert(c, k, v) == [x \in DOMAIN c \cup {k} |-> IF x = k THEN v ELSE c[x]]

\* `if !cached.contains_key(parent)` (line 53)
NeedsListing(c, parent) == parent \notin DOMAIN c

\* `if case || p.file_name()...any(is_ascii_uppercase)` (line 57)
Qualifies(case, e) == case \/ HasUpperName(FileName(e))

\* The body of the while loop over the entries `seen` (lines 55-60); no two
\* entries of a directory have the same key, so their order does not matter.
InsertEntries(c, case, seen) ==
    LET q == {e \in seen : Qualifies(case, e)}
        keys == {LowerPath(e) : e \in q}
    IN  [k \in DOMAIN c \cup keys |->
            IF k \in keys THEN CHOOSE e \in q : LowerPath(e) = k ELSE c[k]]

\* Mutant of WithSentinel: a listing that inserted no entry leaves no sentinel.
WithSentinelIfEntries(c, parent) ==
    IF \E k \in DOMAIN c : c[k] # EmptyPath /\ Parent(c[k]) = parent
    THEN Insert(c, parent, EmptyPath)
    ELSE c

\* `cached.insert(parent.to_owned(), PathBuf::new())` (line 61)
WithSentinel(c, parent) == Insert(c, parent, EmptyPath)

\* `cached.get(&lowercased).filter(|p| !p.is_empty()).map_or_else(..)` (lines 64-69)
Lookup(c, pa) ==
    IF LowerPath(pa) \in DOMAIN c /\ c[LowerPath(pa)] # EmptyPath
    THEN c[LowerPath(pa)]
    ELSE pa

\* Mutant of ReturnsEarly: the comparison with the lowercased path is missing.
ReturnsEarlyNoParentOnly(pa) == ~HasParent(pa)

\* The early returns of lines 43-50.
ReturnsEarly(pa) == LowerPath(pa) = pa \/ ~HasParent(pa)

\* io::Result<Cow<Path>>
OkPath(pa) == [ok |-> TRUE, path |-> pa]
IoError == [ok |-> FALSE, path |-> EmptyPath]

\* What the I/O of a call does: "ok"; "open_err", fs::read_dir fails;
\* "iter_err", it.next_entry() fails after it has returned the entries `seen`.
IoOk == [kind |-> "ok", seen |-> {}]
IoFailures(parent) ==
    {[kind |-> "open_err", seen |-> {}]}
    \cup {[kind |-> "iter_err", seen |-> s] : s \in SUBSET ReadDir(parent)}

\* One call symlink_realpath_with(pa, c): what it returns, the cache it leaves,
\* the directory it gave to read_dir and whether that listing ran to its end.
ResolveWith(pa, c, io) ==
    IF ReturnsEarly(pa)
    THEN [out |-> OkPath(pa), cache |-> c, read |-> EmptyPath, listed |-> FALSE]
    ELSE LET parent == Parent(pa)
             case == HasUpperPath(parent)
         IN  IF NeedsListing(c, parent)
             THEN CASE io.kind = "open_err" ->
                         [out |-> IoError, cache |-> c, read |-> parent, listed |-> FALSE]
                    [] io.kind = "iter_err" ->
                         [out |-> IoError, cache |-> InsertEntries(c, case, io.seen),
                          read |-> parent, listed |-> FALSE]
                    [] io.kind = "ok" ->
                         LET full == WithSentinel(InsertEntries(c, case, ReadDir(parent)), parent)
                         IN  [out |-> OkPath(Lookup(full, pa)), cache |-> full,
                              read |-> parent, listed |-> TRUE]
             ELSE [out |-> OkPath(Lookup(c, pa)), cache |-> c, read |-> EmptyPath,
                   listed |-> FALSE]

\* Number of calls made with one cache.
MaxCalls == 3

Record(pa, r) ==
    /\ cached' = r.cache
    /\ calls' = calls + 1
    /\ scans' = IF r.listed
                THEN Insert(scans, r.read, IF r.read \in DOMAIN scans THEN scans[r.read] + 1 ELSE 1)
                ELSE scans
    /\ lastIn' = pa
    /\ lastOut' = r.out
    /\ lastRead' = r.read

\* A call whose I/O, if any, succeeds.
Call ==
    /\ calls < MaxCalls
    /\ \E pa \in Inputs : Record(pa, ResolveWith(pa, cached, IoOk))
    /\ UNCHANGED notResolveVars

\* A call that lists its parent, the listing failing.
CallIoError ==
    /\ calls < MaxCalls
    /\ \E pa \in Inputs :
          /\ ~ReturnsEarly(pa)
          /\ NeedsListing(cached, Parent(pa))
          /\ \E io \in IoFailures(Parent(pa)) : Record(pa, ResolveWith(pa, cached, io))
    /\ UNCHANGED notResolveVars

--------------------------------------------------------------------------
(* calculate_size, lines 72-94.                                            *)
(*                                                                         *)
(* The tree it runs on.  A node is a path; `top` holds files of 10, 20 and *)
(* 30 bytes at three depths, an empty directory and a symlink to `ext`, a  *)
(* directory outside `top`.  Directories have a length of their own.       *)
Nodes == {"top", "top/f10", "top/sub", "top/sub/f20", "top/sub/deep",
          "top/sub/deep/f30", "top/empty", "top/link", "ext", "ext/big"}

Kind ==
    [n \in Nodes |->
        CASE n \in {"top", "top/sub", "top/sub/deep", "top/empty", "ext"} -> "dir"
          [] n = "top/link" -> "symlink"
          [] OTHER -> "file"]

NodeLen ==
    [n \in Nodes |->
        CASE n = "top/f10" -> 10
          [] n = "top/sub/f20" -> 20
          [] n = "top/sub/deep/f30" -> 30
          [] n = "top/link" -> 7
          [] n = "ext/big" -> 40
          [] OTHER -> 64]

\* The directory that holds a node ("" for the two roots of the tree).
DirOf ==
    [n \in Nodes |->
        CASE n \in {"top/f10", "top/sub", "top/empty", "top/link"} -> "top"
          [] n \in {"top/sub/f20", "top/sub/deep"} -> "top/sub"
          [] n = "top/sub/deep/f30" -> "top/sub/deep"
          [] n = "ext/big" -> "ext"
          [] OTHER -> ""]

\* What a symlink points to.
Target == [n \in {"top/link"} |-> "ext"]

\* fs::metadata: the mutant of SymlinkMetadata, which follows a symlink.
MetadataFollow(n) ==
    LET t == IF Kind[n] = "symlink" THEN Target[n] ELSE n
    IN  [isDir |-> Kind[t] = "dir", len |-> NodeLen[t]]

\* fs::symlink_metadata(&path) (line 76): the symlink itself, not its target.
SymlinkMetadata(n) == [isDir |-> Kind[n] = "dir", len |-> NodeLen[n]]

\* entry.metadata() (line 84): does not traverse a symlink either.
EntryMetadata(n) == [isDir |-> Kind[n] = "dir", len |-> NodeLen[n]]

\* fs::read_dir(path) (line 82): the entries of the directory, through a symlink.
Entries(n) ==
    LET d == IF Kind[n] = "symlink" THEN Target[n] ELSE n
    IN  {e \in Nodes : DirOf[e] = d}

\* Mutant of AfterFailure: a failed query abandons the directories still queued.
AfterFailureAbandon(q) == <<>>

\* `else { continue }` (lines 76, 82): the queue is kept as it is.
AfterFailure(q) == q

\* `stack.pop_front()` gave `path`; its metadata is read; it is not a directory.
SizePopFile ==
    /\ spc = "pop"
    /\ stack # <<>>
    /\ ~SymlinkMetadata(Head(stack)).isDir
    /\ total' = total + SymlinkMetadata(Head(stack)).len
    /\ stack' = Tail(stack)
    /\ UNCHANGED <<root, spc, cur, remaining, lost, cut>>
    /\ UNCHANGED notSizeVars

\* `path` is a directory and fs::read_dir(path) opens it.
SizePopDir ==
    /\ spc = "pop"
    /\ stack # <<>>
    /\ SymlinkMetadata(Head(stack)).isDir
    /\ stack' = Tail(stack)
    /\ cur' = Head(stack)
    /\ remaining' = Entries(Head(stack))
    /\ spc' = "iter"
    /\ UNCHANGED <<root, total, lost, cut>>
    /\ UNCHANGED notSizeVars

\* fs::symlink_metadata(&path) fails, or fs::read_dir(path) does: `continue`.
SizePopErr ==
    /\ spc = "pop"
    /\ stack # <<>>
    /\ stack' = AfterFailure(Tail(stack))
    /\ lost' = lost \cup {Head(stack)}
    /\ UNCHANGED <<root, total, spc, cur, remaining, cut>>
    /\ UNCHANGED notSizeVars

\* it.next_entry() gives an entry whose metadata is read (lines 83-90).
SizeEntry ==
    /\ spc = "iter"
    /\ \E e \in remaining :
          /\ remaining' = remaining \ {e}
          /\ IF EntryMetadata(e).isDir
             THEN stack' = Append(stack, e) /\ total' = total
             ELSE total' = total + EntryMetadata(e).len /\ stack' = stack
    /\ UNCHANGED <<root, spc, cur, lost, cut>>
    /\ UNCHANGED notSizeVars

\* entry.metadata() fails: `continue` (line 84).
SizeEntryErr ==
    /\ spc = "iter"
    /\ \E e \in remaining :
          /\ remaining' = remaining \ {e}
          /\ lost' = lost \cup {e}
    /\ UNCHANGED <<root, total, stack, spc, cur, cut>>
    /\ UNCHANGED notSizeVars

\* it.next_entry() returns Ok(None): the while loop ends.
SizeIterEnd ==
    /\ spc = "iter"
    /\ remaining = {}
    /\ spc' = "pop"
    /\ UNCHANGED <<root, total, stack, cur, remaining, lost, cut>>
    /\ UNCHANGED notSizeVars

\* it.next_entry() returns Err: `while let Ok(Some(..))` ends the loop as well.
SizeIterErr ==
    /\ spc = "iter"
    /\ spc' = "pop"
    /\ stack' = AfterFailure(stack)
    /\ lost' = lost \cup {cur}
    /\ cut' = cut \cup {cur}
    /\ UNCHANGED <<root, total, cur, remaining>>
    /\ UNCHANGED notSizeVars

\* The queue is empty: `total` is returned (line 93).
SizeReturn ==
    /\ spc = "pop"
    /\ stack = <<>>
    /\ spc' = "done"
    /\ UNCHANGED <<root, total, stack, cur, remaining, lost, cut>>
    /\ UNCHANGED notSizeVars

--------------------------------------------------------------------------
(* max_common_root                                                         *)
(* A path is the sequence of its components, as Path::components gives     *)
(* them: Root is the RootDir component, only ever the first one.           *)

MaxFiles == 3

RootNames == {<<"a">>, <<"b">>}

\* Relative paths of at most two names, the empty path "" among them.
RelPaths ==
    {EmptyPath} \cup {<<x>> : x \in RootNames}
                \cup {<<x, y>> : x \in RootNames, y \in RootNames}

\* Absolute paths of at most two names, "/" among them, and those of three
\* names whose second name is b.
AbsPaths ==
    {<<Root>> \o r : r \in RelPaths}
        \cup {<<Root, x, <<"b">>, y>> : x \in RootNames, y \in RootNames}

RootPaths == RelPaths \cup AbsPaths

\* All the lists of at most n paths.
FileLists(n) == UNION {[1..k -> RootPaths] : k \in 0..n}

ParentOrSelf(p) ==
    IF p = EmptyPath \/ p[Len(p)] = Root THEN p ELSE SubSeq(p, 1, Len(p) - 1)

\* p.parent().unwrap_or(Path::new("")).components(): parent() is None for
\* "" and for a path that ends in the root.
ParentComponents(p) ==
    IF p = EmptyPath \/ p[Len(p)] = Root
    THEN EmptyPath
    ELSE SubSeq(p, 1, Len(p) - 1)

RECURSIVE ZipNoBreak(_, _)
ZipNoBreak(a, b) ==
    IF a = <<>> \/ b = <<>> THEN <<>>
    ELSE (IF Head(a) = Head(b) THEN <<Head(a)>> ELSE <<>>)
             \o ZipNoBreak(Tail(a), Tail(b))

\* for (a, b) in root.components().zip(components): zip stops with the
\* shorter side, the loop breaks at the first pair that differs.
ZipPrefix(a, b) ==
    LET m == IF Len(a) < Len(b) THEN Len(a) ELSE Len(b)
        k == CHOOSE k \in 0..m :
                 /\ \A j \in 1..k : a[j] = b[j]
                 /\ k = m \/ a[k + 1] # b[k + 1]
    IN  SubSeq(a, 1, k)

FirstRootWhole(fs) == fs[1]

\* it.next().unwrap().collect::<PathBuf>()
FirstRoot(fs) == ParentComponents(fs[1])

\* The whole function, for the lists that are not the argument of the run.
RECURSIVE FoldRoot(_, _, _)
FoldRoot(r, fs, i) ==
    IF i > Len(fs) THEN r
    ELSE FoldRoot(ZipPrefix(r, ParentComponents(fs[i])), fs, i + 1)

MaxCommonRoot(fs) ==
    IF fs = <<>> THEN EmptyPath ELSE FoldRoot(FirstRoot(fs), fs, 2)

\* if files.is_empty() { return PathBuf::new(); }
RootEmpty ==
    /\ rpc = "start"
    /\ files = <<>>
    /\ commonRoot' = EmptyPath
    /\ rpc' = "done"
    /\ UNCHANGED <<files, it>>
    /\ UNCHANGED notRootVars

RootFirst ==
    /\ rpc = "start"
    /\ files # <<>>
    /\ commonRoot' = FirstRoot(files)
    /\ it' = 2
    /\ rpc' = "fold"
    /\ UNCHANGED files
    /\ UNCHANGED notRootVars

\* One round of `for components in it`.
RootFold ==
    /\ rpc = "fold"
    /\ it <= Len(files)
    /\ commonRoot' = ZipPrefix(commonRoot, ParentComponents(files[it]))
    /\ it' = it + 1
    /\ UNCHANGED <<files, rpc>>
    /\ UNCHANGED notRootVars

RootReturn ==
    /\ rpc = "fold"
    /\ it > Len(files)
    /\ rpc' = "done"
    /\ UNCHANGED <<files, commonRoot, it>>
    /\ UNCHANGED notRootVars

--------------------------------------------------------------------------
(* Initial states and specifications. *)

CopyStart(sizes) ==
    /\ size \in sizes
    /\ destLen = 0
    /\ cpc = "copy"
    /\ copyRes = None
    /\ timesDone = FALSE
    /\ tick = None
    /\ ppc = "select"
    /\ last = 0
    /\ exit = None
    /\ pending = None
    /\ sampled = 0
    /\ chan = <<>>
    /\ rx = "open"
    /\ sent = <<>>
    /\ received = <<>>
    /\ dropCpc = "none"

\* A fresh cache, as symlink_realpath makes it: HashMap::new() (line 29).
ResolveStart ==
    /\ cached = EmptyCache
    /\ calls = 0
    /\ scans = EmptyCache
    /\ lastIn = EmptyPath
    /\ lastOut = OkPath(EmptyPath)
    /\ lastRead = EmptyPath

\* calculate_size(path): `total = 0`, `stack = VecDeque::from([path])`.
SizeStart(paths) ==
    /\ root \in paths
    /\ total = 0
    /\ stack = <<root>>
    /\ spc = "pop"
    /\ cur = ""
    /\ remaining = {}
    /\ lost = {}
    /\ cut = {}

\* max_common_root(files), before its first statement.
RootStart(lists) ==
    /\ files \in lists
    /\ commonRoot = EmptyPath
    /\ it = 1
    /\ rpc = "start"

InitCopy ==
    CopyStart(0..MaxSize) /\ ResolveStart /\ SizeStart({"top"})
        /\ RootStart({<<>>})

NextCopy ==
    \/ CopyWrite
    \/ CopyOk
    \/ CopyErr
    \/ SetTimes
    \/ Signal
    \/ PollerCompletion
    \/ PollerClosed
    \/ PollerTick
    \/ PollerSample
    \/ PollerSend
    \/ Recv
    \/ Close
    \/ Drop

SpecCopy == InitCopy /\ [][NextCopy]_vars

\* Scheduling of the two spawned tasks: every await that can complete does.
\* An I/O error (CopyErr) and the consumer's moves are never forced.  In
\* select! a ready tx.closed() is polled on every iteration, while the sleep
\* is created anew and is not ready at its first poll: hence SF.
FairCopy ==
    /\ WF_vars(CopyWrite)
    /\ WF_vars(CopyOk)
    /\ WF_vars(SetTimes)
    /\ WF_vars(Signal)
    /\ WF_vars(PollerCompletion)
    /\ SF_vars(PollerClosed)
    /\ WF_vars(PollerSample)
    /\ WF_vars(PollerSend)

SpecCopyFair == InitCopy /\ [][NextCopy]_vars /\ FairCopy

\* The same scheduling with a consumer that keeps receiving while it holds
\* the receiver (it may still close or drop it at any time).  The completion
\* signal, once sent, is ready at every poll of select!, which the fresh
\* sleep is not: hence SF.
FairCopyRecv ==
    /\ FairCopy
    /\ SF_vars(PollerCompletion)
    /\ WF_vars(Recv)

SpecCopyRecv == InitCopy /\ [][NextCopy]_vars /\ FairCopyRecv

InitResolve ==
    CopyStart({0}) /\ ResolveStart /\ SizeStart({"top"}) /\ RootStart({<<>>})

NextResolve ==
    \/ Call
    \/ CallIoError

SpecResolve == InitResolve /\ [][NextResolve]_vars

\* The calls of SpecResolve whose I/O succeeds.
NextResolveOk == Call

SpecResolveOk == InitResolve /\ [][NextResolveOk]_vars

InitSize ==
    CopyStart({0}) /\ ResolveStart /\ SizeStart(Nodes) /\ RootStart({<<>>})

NextSize ==
    \/ SizePopFile
    \/ SizePopDir
    \/ SizePopErr
    \/ SizeEntry
    \/ SizeEntryErr
    \/ SizeIterEnd
    \/ SizeIterErr
    \/ SizeReturn

SpecSize == InitSize /\ [][NextSize]_vars

InitRoot ==
    CopyStart({0}) /\ ResolveStart /\ SizeStart({"top"})
        /\ RootStart(FileLists(MaxFiles))

NextRoot ==
    \/ RootEmpty
    \/ RootFirst
    \/ RootFold
    \/ RootReturn

SpecRoot == InitRoot /\ [][NextRoot]_vars

--------------------------------------------------------------------------
(* Properties of copy_with_progress. *)

RECURSIVE SumDeltas(_)
SumDeltas(s) == IF s = <<>> THEN 0 ELSE Head(s).v + SumDeltas(Tail(s))

Front(s) == SubSeq(s, 1, Len(s) - 1)

\* The copy succeeded, the poller has exited (the channel is closed), and the
\* consumer, who never closed the receiver, has received all there was.
SuccessDrained ==
    /\ copyRes = Ok(size)
    /\ ppc = "done"
    /\ rx = "open"
    /\ chan = <<>>

\* C1: after a successful copy of `size` bytes, a consumer that received every
\* message up to the closing of the channel got only Ok messages; their deltas
\* sum to `size`, with or without the last one, and the last one is Ok(0).
C1_DeltasSumToSize ==
    SuccessDrained =>
        /\ received = sent
        /\ \A i \in 1..Len(received) : received[i].ok
        /\ received # <<>>
        /\ received[Len(received)] = Ok(0)
        /\ SumDeltas(received) = size
        /\ SumDeltas(Front(received)) = size

\* A successful copy reported in two ticks or a tick and the catch-up delta.
C1_Witness ==
    /\ SuccessDrained
    /\ size >= 2
    /\ Len(received) = 3

\* C2: when fs::copy failed, no Ok(0) is ever sent, at most one Err is sent
\* and nothing is sent after it, every message before it is a positive delta,
\* and once the poller has exited with the receiver still open exactly one Err
\* has been sent.
C2_FailedCopyEndsWithOneErr ==
    copyRes = Err =>
        /\ \A i \in 1..Len(sent) : sent[i] # Ok(0)
        /\ \A i \in 1..Len(sent) : sent[i] = Err => i = Len(sent)
        /\ \A i \in 1..Len(sent) : sent[i] # Err => (sent[i].ok /\ sent[i].v > 0)
        /\ (ppc = "done" /\ rx = "open") => (sent # <<>> /\ sent[Len(sent)] = Err)

\* A failed copy whose Err follows a positive delta.
C2_Witness ==
    /\ copyRes = Err
    /\ ppc = "done"
    /\ Len(sent) >= 2
    /\ sent[Len(sent)] = Err
    /\ sent[1].ok

\* C3: Ok(0) is only the completion sentinel: it is the last message sent, sent
\* by a poller that has received a successful completion and has exited; the
\* delta of a tick and the catch-up delta awaiting their send are positive.
C3_ZeroOnlyAsSentinel ==
    /\ \A i \in 1..Len(sent) :
          sent[i] = Ok(0) => (i = Len(sent) /\ exit = Ok(size) /\ ppc = "done")
    /\ \A i \in 1..Len(sent) : sent[i].ok => sent[i].v >= 0
    /\ ppc \in {"send_tick", "send_final"} => (pending.ok /\ pending.v > 0)
    /\ ppc = "send_zero" => exit = Ok(size)

\* The sentinel was sent after two positive deltas.
C3_Witness ==
    /\ Len(sent) >= 3
    /\ sent[Len(sent)] = Ok(0)

\* C4: once the receiver is closed or dropped the channel accepts no further
\* message; every step of the copier stays enabled whatever the receiver's
\* state; and both tasks run to their end: the poller exits, the copier ends
\* its copy and, on success, has applied the timestamps.
C4_DropStopsPollerNotCopier ==
    /\ [][rx # "open" => sent' = sent]_vars
    /\ [](rx # "open" =>
            /\ (cpc = "copy" /\ destLen < size) => ENABLED CopyWrite
            /\ (cpc = "copy" /\ destLen = size) => ENABLED CopyOk
            /\ cpc = "times" => ENABLED SetTimes
            /\ cpc = "signal" => ENABLED Signal)
    /\ (rx # "open") ~> (ppc = "done" /\ cpc = "done" /\ (copyRes.ok => timesDone))

\* The receiver went away while fs::copy was running; the copy still succeeded,
\* the timestamps were applied and the poller exited.
C4_Witness ==
    /\ rx # "open"
    /\ dropCpc = "copy"
    /\ size > 0
    /\ destLen = size
    /\ copyRes = Ok(size)
    /\ timesDone
    /\ cpc = "done"
    /\ ppc = "done"

\* C17: the copier sends the completion signal once, with the result of the
\* copy, and never again; with a consumer that keeps receiving or drops the
\* receiver, the copier ends, the poller exits and the channel is closed and
\* empty for good: the next recv returns None.
C17_SignalOncePollerExits ==
    /\ [][cpc = "done" => cpc' = "done"]_vars
    /\ [][tick # None => tick' = tick]_vars
    /\ [][(cpc = "signal" /\ cpc' = "done" /\ ppc # "done") =>
             (tick = None /\ tick' = copyRes /\ copyRes \in {Ok(size), Err})]_vars
    /\ <>(cpc = "done")
    /\ <>[](ppc = "done" /\ chan = <<>>)

\* The consumer received every message of a successful copy and the poller
\* exited with the receiver still open.
C17_Witness ==
    /\ cpc = "done"
    /\ ppc = "done"
    /\ rx = "open"
    /\ chan = <<>>
    /\ size > 0
    /\ tick = Ok(size)
    /\ received = sent
    /\ Len(received) >= 2

\* C18: the completion signal of a successful copy exists only once the copy
\* and the timestamp application are over, so they are over whenever the
\* terminal Ok(0) is pending, sent or received.
C18_SignalAfterTimes ==
    /\ tick.ok => (timesDone /\ copyRes = Ok(size) /\ destLen = size)
    /\ (\/ (ppc = "send_zero" /\ pending = Ok(0))
        \/ \E i \in 1..Len(sent) : sent[i] = Ok(0)
        \/ \E i \in 1..Len(received) : received[i] = Ok(0))
       => (timesDone /\ copyRes = Ok(size) /\ destLen = size /\ cpc = "done")

\* The consumer received the terminal Ok(0) of a copy of MaxSize bytes.
C18_Witness ==
    /\ received # <<>>
    /\ received[Len(received)] = Ok(0)
    /\ size = MaxSize
    /\ timesDone
    /\ cpc = "done"

--------------------------------------------------------------------------
(* Properties of symlink_realpath_with.  A step of SpecResolve is one call: *)
(* lastIn', lastOut' and lastRead' are its path, its result and the         *)
(* directory it listed; cached and cached' the cache before and after.      *)

\* The entry of Disk that `pa` names on the case-insensitive filesystem.
OnDisk(pa) == CHOOSE d \in Disk : LowerPath(d) = LowerPath(pa)
Exists(pa) == \E d \in Disk : LowerPath(d) = LowerPath(pa)

\* The file entries of the cache that a listing of `parent` inserted.
EntriesOf(c, parent) == {k \in DOMAIN c : c[k] # EmptyPath /\ Parent(c[k]) = parent}

C6_EarlyReturnTouchesNothing ==
    [][(/\ calls' = calls + 1
        /\ (LowerPath(lastIn') = lastIn' \/ ~HasParent(lastIn')))
       => (/\ lastOut' = OkPath(lastIn')
           /\ lastRead' = EmptyPath
           /\ cached' = cached
           /\ scans' = scans)]_vars

\* An all-lowercase path was returned as given although the cache holds its
\* path in another casing.
C6_Witness ==
    /\ calls >= 2
    /\ HasParent(lastIn)
    /\ LowerPath(lastIn) = lastIn
    /\ lastIn \in DOMAIN cached
    /\ cached[lastIn] # EmptyPath
    /\ cached[lastIn] # lastIn
    /\ lastOut = OkPath(lastIn)
    /\ lastRead = EmptyPath

\* C7: for an entry of the filesystem whose name has an uppercase character,
\* the call with the path of that entry, its name given in lowercase, returns
\* the path of the entry in its on-disk casing.
C7_LowercaseNameResolved ==
    \A d \in Disk :
        (/\ calls > 0
         /\ lastOut.ok
         /\ HasUpperName(FileName(d))
         /\ lastIn = Append(Parent(d), LowerName(FileName(d))))
        => lastOut.path = d

\* C8: a call that returns an I/O error leaves the cache as it was.
C8_FailedListingLeavesCache ==
    [][(calls' = calls + 1 /\ ~lastOut'.ok) => cached' = cached]_vars

\* C9: for a path that is not all lowercase, the ancestors of the returned
\* path are in their on-disk casing.
C9_AncestorsRecased ==
    (/\ calls > 0
     /\ lastOut.ok
     /\ HasParent(lastIn)
     /\ LowerPath(lastIn) # lastIn
     /\ Exists(lastIn))
    => Parent(lastOut.path) = Parent(OnDisk(lastIn))

\* Resolving the result of the previous call returns it unchanged.
IdempotentStep ==
    (/\ calls > 0
     /\ calls' = calls + 1
     /\ lastOut.ok
     /\ lastOut'.ok
     /\ lastIn' = lastOut.path)
    => lastOut'.path = lastIn'

\* C10: resolving the result of a call returns that result unchanged, and a
\* path in its on-disk casing is returned unchanged, whatever calls were made
\* with the cache before.
C10_Idempotent ==
    /\ [][IdempotentStep]_vars
    /\ []((calls > 0 /\ lastOut.ok /\ lastIn \in Disk) => lastOut.path = lastIn)

\* The first half of C10 alone.
C10_IdempotentOnSameCache == [][IdempotentStep]_vars

\* A resolver with a fresh cache that inserts an entry for every entry listed:
\* the condition of line 57 taken as true.
ResolveEveryEntry(pa) ==
    IF ReturnsEarly(pa)
    THEN pa
    ELSE LET parent == Parent(pa)
         IN  Lookup(WithSentinel(InsertEntries(EmptyCache, TRUE, ReadDir(parent)), parent), pa)

\* C15: the result of a call with a fresh cache equals that of the resolver
\* that inserts every listed entry; so an all-lowercase entry named in
\* another casing comes back in its on-disk casing.
C15_FilterIsPureOptimization ==
    (calls = 1 /\ lastOut.ok) => lastOut.path = ResolveEveryEntry(lastIn)

\* C16: a call that passes the early returns and whose parent has not been
\* listed to its end with this cache gives that parent to read_dir.
C16_OnlySentinelSkipsListing ==
    [][(/\ calls' = calls + 1
        /\ ~ReturnsEarly(lastIn')
        /\ Parent(lastIn') \notin DOMAIN scans)
       => lastRead' = Parent(lastIn')]_vars

\* C19: after any calls that succeeded with one cache, a call returns what it
\* returns with a fresh cache.
C19_CacheTransparent ==
    calls > 0 => lastOut = ResolveWith(lastIn, EmptyCache, IoOk).out

--------------------------------------------------------------------------
(* Properties of calculate_size. *)

\* Node `n` is `a` or lies in the subtree of `a`; a symlink has no subtree.
RECURSIVE Under(_, _)
Under(n, a) == n = a \/ (DirOf[n] # "" /\ Under(DirOf[n], a))

\* The entries of the subtree of `a` that are not directories.
Leaves(a) == {n \in Nodes : Under(n, a) /\ Kind[n] # "dir"}

RECURSIVE SumLen(_)
SumLen(ns) ==
    IF ns = {} THEN 0
    ELSE LET n == CHOOSE x \in ns : TRUE IN NodeLen[n] + SumLen(ns \ {n})

\* The entries that no failed query hides: none of `lost` is above them.
Kept == {n \in Leaves(root) : \A l \in lost : ~Under(n, l)}

\* C11: when no query fails, the value returned is the sum of the lengths of
\* the entries of the subtree of the argument that are not directories: the
\* argument's own length when it is a file or a symlink, 0 for an empty
\* directory, whatever the depth; a symlink counts with its own length.
C11_SumOfLeaves ==
    (spc = "done" /\ lost = {}) => total = SumLen(Leaves(root))

\* The files of 10, 20 and 30 bytes at three depths and the symlink of 7.
C11_Witness ==
    /\ spc = "done"
    /\ lost = {}
    /\ root = "top"
    /\ total = 10 + 20 + 30 + 7

\* C12: the call always goes on to return a value; the value never exceeds
\* the full total and is at least the sum of the entries outside the subtrees
\* of the paths whose query failed, and equal to it unless a listing failed
\* after some of its entries were read.
C12_FailuresOnlyUndercount ==
    /\ spc # "done" => ENABLED NextSize
    /\ spc = "done" =>
          /\ total <= SumLen(Leaves(root))
          /\ total >= SumLen(Kept)
          /\ cut = {} => total = SumLen(Kept)

\* The directory top/sub could not be read: its 50 bytes are missing, the
\* rest is counted.
C12_Witness ==
    /\ spc = "done"
    /\ root = "top"
    /\ lost = {"top/sub"}
    /\ total = 10 + 7

--------------------------------------------------------------------------
(* Properties of max_common_root. *)

\* `q` is a component-wise prefix of `p`.
IsPrefix(q, p) == Len(q) <= Len(p) /\ SubSeq(p, 1, Len(q)) = q

\* The parent directory of `p`, empty when `p` has none.
Par(p) ==
    IF Len(p) = 0 \/ p = <<Root>> THEN EmptyPath ELSE SubSeq(p, 1, Len(p) - 1)

\* C13: for a list that is not empty, the result is a prefix of the parent of
\* every path of the list, and no path with one more component is one.
C13_LongestCommonPrefix ==
    (rpc = "done" /\ files # <<>>) =>
        /\ \A i \in 1..Len(files) : IsPrefix(commonRoot, Par(files[i]))
        /\ LET p1 == Par(files[1])
               n  == Len(commonRoot) + 1
           IN  Len(p1) >= n =>
                   \E i \in 1..Len(files) :
                       ~IsPrefix(SubSeq(p1, 1, n), Par(files[i]))

\* [/a/b/a, /a/b/b] gives /a/b.
C13_Witness ==
    /\ rpc = "done"
    /\ files = << <<Root, <<"a">>, <<"b">>, <<"a">>>>,
                  <<Root, <<"a">>, <<"b">>, <<"b">>>> >>
    /\ commonRoot = <<Root, <<"a">>, <<"b">>>>

\* C14: the empty list gives the empty path; a single path gives its parent;
\* a list that holds the empty path, a bare file name or another path
\* without a parent gives the empty path.
C14_EdgeCases ==
    rpc = "done" =>
        /\ files = <<>> => commonRoot = EmptyPath
        /\ Len(files) = 1 => commonRoot = Par(files[1])
        /\ (\E i \in 1..Len(files) : Len(files[i]) <= 1)
               => commonRoot = EmptyPath

\* A bare file name next to an absolute path.
C14_Witness ==
    /\ rpc = "done"
    /\ files = << <<Root, <<"a">>, <<"b">>>>, <<(<<"a">>)>> >>
    /\ commonRoot = EmptyPath

\* The permutations of the list `fs`.
ListPermutations(fs) ==
    {[i \in 1..Len(fs) |-> fs[f[i]]] :
        f \in {g \in [1..Len(fs) -> 1..Len(fs)] :
                  \A i, j \in 1..Len(fs) : g[i] = g[j] => i = j}}

\* C20: every permutation of the list gives the same result, and so does the
\* list with one of its paths repeated.
C20_OrderIndependent ==
    rpc = "done" =>
        /\ \A fs \in ListPermutations(files) : MaxCommonRoot(fs) = commonRoot
        /\ \A i \in 1..Len(files) :
               MaxCommonRoot(Append(files, files[i])) = commonRoot

\* The longer path first, then the shorter one, then the first again.
C20_Witness ==
    /\ rpc = "done"
    /\ files = << <<Root, <<"a">>, <<"b">>>>, <<Root, <<"a">>>>,
                  <<Root, <<"a">>, <<"b">>>> >>
    /\ commonRoot = <<Root>>

=============================================================================
